---- MODULE Spec2Model ----
(***************************************************************************)
(* Model of the video downloader page, dashboard/pages/🎥_Video.py:        *)
(*   FormatSelector  the format-selection callback handed to yt-dlp,       *)
(*   Downloader      URL check, probe, fetch, file path of the artifact,   *)
(*   Video           the page's progress callback and its cache.           *)
(* Text that the code inspects character by character (URLs, the           *)
(* format_note labels) is a sequence of one-character strings; text that   *)
(* is only compared or concatenated is a string.                           *)
(***************************************************************************)
EXTENDS Integers, Sequences, FiniteSets, TLC

VARIABLES
    extension,                \* Downloader.extension (the requested one)
    formatselector_extension, \* Downloader.formatselector.extension
    ctx_formats,              \* ctx["formats"] handed to FormatSelector.parser
    selection,                \* outcome of the latest parser call on ctx
    first_selection,          \* outcome of the first parser call on ctx
    parser_calls,             \* parser calls made on ctx
    metadata,                 \* Downloader.metadata
    file_path,                \* Downloader.file_path
    dl_url,                   \* url argument of the latest download_video call
    dl_outcome,               \* how the latest download_video call ended
    dl_before,                \* file_path when that call started
    download_calls,           \* download_video calls made
    succeeded,                \* some call passed the URL check and fetched with status # 1
    read_result,              \* outcome of the latest read of location or content
    cache,                    \* Video.cache
    progression_bar,          \* value shown by Video.progression_bar
    holder,                   \* what Video.holder shows
    rate_text,                \* text written into the Video.rate column
    notification,             \* what Video.notification_placeholder shows
    pc,                       \* position of Video.write
    hook                      \* the latest progress callback: its info and the state before it

vars == <<extension, formatselector_extension, ctx_formats, selection,
          first_selection, parser_calls, metadata, file_path, dl_url,
          dl_outcome, dl_before, download_calls, succeeded, read_result,
          cache, progression_bar, holder, rate_text, notification, pc, hook>>

selector_vars == <<ctx_formats, selection, first_selection, parser_calls>>
downloader_vars == <<metadata, file_path, dl_url, dl_outcome, dl_before,
                     download_calls, succeeded, read_result>>
video_vars == <<cache, progression_bar, holder, rate_text, notification,
                pc, hook>>

----
\* Bounds of the model.

\* longest catalog handed to the parser
MaxCatalog == 3
\* parser calls made on one ctx
MaxParserCalls == 2
\* download_video calls on one Downloader
MaxDownloadCalls == 2
\* largest byte count a progress callback reports
MaxBytes == 3
\* largest download speed reported, in steps of 1.5 MB/s
MaxSpeedSteps == 2

----
\* Helpers for sequences and text.

Range(s) == {s[i] : i \in 1..Len(s)}

Min(S) == CHOOSE x \in S : \A y \in S : x <= y

Max(S) == CHOOSE x \in S : \A y \in S : x >= y

\* str.startswith
StartsWith(s, prefix) ==
    /\ Len(prefix) <= Len(s)
    /\ SubSeq(s, 1, Len(prefix)) = prefix

\* `sub in s` on strings
Contains(s, sub) ==
    \E i \in 1..(Len(s) + 1) :
        /\ i + Len(sub) - 1 <= Len(s)
        /\ SubSeq(s, i, i + Len(sub) - 1) = sub

Digits == {"0", "1", "2", "3", "4", "5", "6", "7", "8", "9"}

DigitValue(c) ==
    CASE c = "0" -> 0 [] c = "1" -> 1 [] c = "2" -> 2 [] c = "3" -> 3
      [] c = "4" -> 4 [] c = "5" -> 5 [] c = "6" -> 6 [] c = "7" -> 7
      [] c = "8" -> 8 [] c = "9" -> 9

\* a raised exception, as the outcome of a call
Raise(exc, msg) == [status |-> exc, message |-> msg]

\* no call made yet
NoCall == [status |-> "none"]

\* an attribute that has not been set (hasattr is False)
Unset == [set |-> FALSE]

\* an attribute holding v
Attr(v) == [set |-> TRUE, value |-> v]

----
\* FormatSelector: class constants.

q1080p == <<"1", "0", "8", "0", "p">>
q720p == <<"7", "2", "0", "p">>
q480p == <<"4", "8", "0", "p">>
q360p == <<"3", "6", "0", "p">>
q240p == <<"2", "4", "0", "p">>
q144p == <<"1", "4", "4", "p">>
q2160p == <<"2", "1", "6", "0", "p">>
qmedium == <<"m", "e", "d", "i", "u", "m">>
qempty == <<>>

EXTENSIONS == [video |-> <<"mp4", "webm">>,
               audio |-> <<"mp3", "m4a", "webm", "wav">>]

RESOLUTIONS == <<q1080p, q720p, q480p, q360p, q240p, q144p>>

MERGE_webm_for_mp4 == ("mp4" :> "webm") @@ ("webm" :> "webm")

MERGE == ("mp4" :> "m4a") @@ ("webm" :> "webm")

\* chain.from_iterable(self.EXTENSIONS.values())
AllExtensions == Range(EXTENSIONS.video) \cup Range(EXTENSIONS.audio)

----
\* The catalogs the extraction engine may report (ctx["formats"], ordered
\* worst to best). A format's id is unique in its catalog.

VideoOnly(ext, note) ==
    [vcodec |-> "avc1", acodec |-> "none", ext |-> ext, format_note |-> note]

AudioOnly(ext, note) ==
    [vcodec |-> "none", acodec |-> "mp4a", ext |-> ext, format_note |-> note]

Combined(ext, note) ==
    [vcodec |-> "avc1", acodec |-> "mp4a", ext |-> ext, format_note |-> note]

FormatShapes ==
    { VideoOnly("mp4", q1080p), VideoOnly("mp4", q720p),
      VideoOnly("webm", q720p), VideoOnly("mp4", q144p),
      VideoOnly("mp4", q2160p), VideoOnly("3gp", q144p),
      AudioOnly("m4a", qmedium), AudioOnly("webm", qmedium),
      AudioOnly("mp3", qempty), Combined("mp4", q360p) }

WithIds(shapes) ==
    [i \in 1..Len(shapes) |->
        [format_id |-> ToString(i),
         vcodec |-> shapes[i].vcodec,
         acodec |-> shapes[i].acodec,
         ext |-> shapes[i].ext,
         format_note |-> shapes[i].format_note,
         protocol |-> "https"]]

Catalogs ==
    {WithIds(s) : s \in UNION {[1..n -> FormatShapes] : n \in 0..MaxCatalog}}

----
\* FormatSelector: methods.

\* FormatSelector.__init__: the argument is dropped.
FormatSelectorInit(ext) == ""

\* _get_positive_int: REGEX_INT is "\d", one digit, matched at the start.
GetPositiveInt(value) ==
    IF Len(value) >= 1 /\ value[1] \in Digits THEN DigitValue(value[1]) ELSE 0

\* max(map(itemgetter("format_note"), formats), key=self._get_positive_int):
\* the first element, in iteration order, whose key is the largest.
GetHighestAvailableQuality(formats) ==
    LET key(i) == GetPositiveInt(formats[i].format_note)
        best == Min({i \in 1..Len(formats) :
                        \A j \in 1..Len(formats) : key(j) <= key(i)})
    IN  formats[best].format_note

VideoMatches(f, quality, ext) ==
    /\ f.vcodec # "none"
    /\ f.acodec = "none"
    /\ (IF ext # "" THEN f.ext = ext ELSE TRUE)
    /\ f.format_note = quality

AudioMatches(f, ext) ==
    /\ f.vcodec = "none"
    /\ f.acodec # "none"
    /\ (IF ext # "" THEN f.ext = ext ELSE TRUE)

\* next(generator) over the formats at the indices in hits: the first one,
\* or StopIteration
NextMatch(formats, hits) ==
    IF hits = {}
    THEN Raise("StopIteration", "")
    ELSE [status |-> "ok", value |-> formats[Min(hits)]]

RetrieveVideoFormat(self_extension, formats, quality, ext_arg) ==
    LET ext == IF ext_arg = "" THEN self_extension ELSE ext_arg
    IN  NextMatch(formats, {i \in 1..Len(formats) :
                                VideoMatches(formats[i], quality, ext)})

RetrieveAudioFormat(self_extension, formats, ext_arg) ==
    LET ext == IF ext_arg = "" THEN self_extension ELSE ext_arg
    IN  NextMatch(formats, {i \in 1..Len(formats) :
                                AudioMatches(formats[i], ext)})

Reverse(s) == [i \in 1..Len(s) |-> s[Len(s) + 1 - i]]

ReversedCopy_not_reversed(formats) == formats

\* ctx.get("formats", [])[::-1], a new list
ReversedCopy(formats) == Reverse(formats)

IsAudio(self_extension) == self_extension \in Range(EXTENSIONS.audio)

\* The quality parser asks for: "144p" for audio, else the highest one
\* available, replaced by "1080p" when it is not in RESOLUTIONS.
\* formats is the reversed list and is not empty here.
TargetQuality(self_extension, formats) ==
    IF IsAudio(self_extension)
    THEN q144p
    ELSE LET quality == GetHighestAvailableQuality(formats)
         IN  IF quality \notin Range(RESOLUTIONS) THEN q1080p ELSE quality

\* FormatSelector.parser, run to exhaustion: the one dict it yields, or the
\* exception it raises. (A StopIteration escaping a generator reaches the
\* caller as RuntimeError; the status keeps the name of the cause.)
Parser(self_extension, ctx) ==
    IF self_extension # "" /\ self_extension \notin AllExtensions
    THEN Raise("ValueError", "Extension is not available.")
    ELSE
    LET formats == ReversedCopy(ctx)
    IN  IF ~IsAudio(self_extension) /\ formats = <<>>
        THEN Raise("ValueError", "max() arg is an empty sequence")
        ELSE
        LET quality == TargetQuality(self_extension, formats)
            video == RetrieveVideoFormat(self_extension, formats, quality, "")
        IN  IF video.status # "ok"
            THEN video
            ELSE
            IF ~IsAudio(self_extension) /\ video.value.ext \notin DOMAIN MERGE
            THEN Raise("KeyError", video.value.ext)
            ELSE
            LET audio == RetrieveAudioFormat(
                            self_extension, formats,
                            IF IsAudio(self_extension)
                            THEN self_extension
                            ELSE MERGE[video.value.ext])
            IN  IF audio.status # "ok"
                THEN audio
                ELSE [status |-> "ok",
                      format_id |-> video.value.format_id \o "+"
                                        \o audio.value.format_id,
                      ext |-> video.value.ext,
                      requested_formats |-> <<video.value, audio.value>>,
                      protocol |-> video.value.protocol \o "+"
                                        \o audio.value.protocol]

----
\* Downloader: construction.

\* the extensions a Downloader is constructed with: "" is the page's
\* "auto", "avi" stands for an extension outside EXTENSIONS
RequestedExtensions == {"", "mp4", "webm", "mp3", "m4a", "wav", "avi"}

storage == "./temp"

banned == <<<<"p", "o", "r", "n">>, <<"x", "x", "x">>>>

\* Downloader.__init__, with the FormatSelector it builds
InitDownloader ==
    /\ extension \in RequestedExtensions
    /\ formatselector_extension = FormatSelectorInit(extension)
    /\ metadata = Unset
    /\ file_path = Unset
    /\ dl_url = <<>>
    /\ dl_outcome = NoCall
    /\ dl_before = Unset
    /\ download_calls = 0
    /\ succeeded = FALSE
    /\ read_result = NoCall

InitSelector ==
    /\ ctx_formats = <<>>
    /\ selection = NoCall
    /\ first_selection = NoCall
    /\ parser_calls = 0

\* Video.__init__
InitVideo ==
    /\ cache = [delta |-> 0, update_hook |-> FALSE, download_progress |-> 0]
    /\ progression_bar = Unset
    /\ holder = Unset
    /\ rate_text = Unset
    /\ notification = Unset
    /\ pc = "form"
    /\ hook = NoCall

Init == InitDownloader /\ InitSelector /\ InitVideo

----
\* The format selector, called on a catalog.

\* the extraction engine builds the ctx of one probe
LoadCtx ==
    /\ ctx_formats = <<>>
    /\ parser_calls = 0
    /\ \E catalog \in Catalogs \ {<<>>} : ctx_formats' = catalog
    /\ UNCHANGED <<selection, first_selection, parser_calls>>
    /\ UNCHANGED <<extension, formatselector_extension>>
    /\ UNCHANGED downloader_vars
    /\ UNCHANGED video_vars

CallParser_reverses_in_place ==
    /\ parser_calls < MaxParserCalls
    /\ selection' = Parser(formatselector_extension, ctx_formats)
    /\ first_selection' = IF parser_calls = 0 THEN selection' ELSE first_selection
    /\ parser_calls' = parser_calls + 1
    /\ ctx_formats' = Reverse(ctx_formats)
    /\ UNCHANGED <<extension, formatselector_extension>>
    /\ UNCHANGED downloader_vars
    /\ UNCHANGED video_vars

\* one call of formatselector.parser(ctx): neither ctx nor the selector changes
CallParser ==
    /\ parser_calls < MaxParserCalls
    /\ selection' = Parser(formatselector_extension, ctx_formats)
    /\ first_selection' = IF parser_calls = 0 THEN selection' ELSE first_selection
    /\ parser_calls' = parser_calls + 1
    /\ UNCHANGED <<ctx_formats, extension, formatselector_extension>>
    /\ UNCHANGED downloader_vars
    /\ UNCHANGED video_vars

NextSelector ==
    \/ LoadCtx
    \/ CallParser

SpecSelector == Init /\ [][NextSelector]_vars

----
\* Downloader.

https == <<"h", "t", "t", "p", "s">>
watch == <<"w", "a", "t", "c", "h">>
you == <<"y", "o", "u">>

url_youtube == <<"h","t","t","p","s",":","/","/","w","w","w",".","y","o","u","t","u","b","e",".","c","o","m","/","w","a","t","c","h","?","v","=","a","b","c">>
url_http_example == <<"h","t","t","p",":","/","/","e","x","a","m","p","l","e",".","c","o","m","/","w","a","t","c","h","?","v","=","a","b","c">>
url_youtube_xxx == <<"h","t","t","p","s",":","/","/","w","w","w",".","y","o","u","t","u","b","e",".","c","o","m","/","w","a","t","c","h","?","v","=","x","x","x">>
url_ftp_banned == <<"f","t","p",":","/","/","x","x","x","p","o","r","n",".","t","v","/","a">>
url_vimeo == <<"h","t","t","p","s",":","/","/","v","i","m","e","o",".","c","o","m","/","1">>

\* the urls download_video is called with
Urls == {url_youtube, url_http_example, url_youtube_xxx, url_ftp_banned,
         url_vimeo}

\* Downloader._check_url: True makes download_video raise
CheckUrl(url) ==
    ~(\/ StartsWith(url, https)
      \/ \E i \in 1..Len(banned) : ~Contains(url, banned[i])
      \/ Contains(url, watch)
      \/ Contains(url, you))

\* what extract_info(url, download=False, process=False) may do: raise, or
\* return the metadata of the video, its catalog included
Probes ==
    {Raise("DownloadError", "extract_info")}
    \cup [status : {"ok"},
          title : {"clip", "talk"},
          formats : {WithIds(<<>>),
                     WithIds(<<Combined("mp4", q360p)>>),
                     WithIds(<<AudioOnly("m4a", qmedium),
                               VideoOnly("mp4", q720p)>>)}]

\* what video_downloader.download([url]) may do once the formats are
\* selected: return its error code, or raise
Fetches ==
    {[status |-> "returned", error_code |-> 0],
     [status |-> "returned", error_code |-> 1],
     Raise("DownloadError", "download")}

\* how a download_video call ends, in the order of the code
DownloadOutcome(rejected, probe, fetch) ==
    IF rejected
    THEN Raise("ValueError", "Recieved an invalid URL, stopping...")
    ELSE IF probe.status # "ok"
    THEN probe
    ELSE LET chosen == Parser(formatselector_extension, probe.formats)
         IN  IF chosen.status # "ok"
             THEN chosen
             ELSE IF fetch.status # "returned"
             THEN fetch
             ELSE IF fetch.error_code = 1
             THEN Raise("DownloadError", "Video download failed.")
             ELSE [status |-> "ok"]

FilePathOf(title) == storage \o "/" \o title \o "." \o extension

DownloadVideo_sets_path_before_error_check(url, probe, fetch) ==
    LET rejected == CheckUrl(url)
        outcome == DownloadOutcome(rejected, probe, fetch)
        probed == ~rejected /\ probe.status = "ok"
    IN  /\ download_calls < MaxDownloadCalls
        /\ dl_url' = url
        /\ dl_outcome' = outcome
        /\ dl_before' = file_path
        /\ download_calls' = download_calls + 1
        /\ metadata' = IF probed
                       THEN Attr([title |-> probe.title,
                                  formats |-> probe.formats])
                       ELSE metadata
        /\ file_path' = IF /\ probed
                           /\ outcome.status \in {"ok", "DownloadError"}
                           /\ fetch.status = "returned"
                        THEN Attr(FilePathOf(probe.title))
                        ELSE file_path
        /\ succeeded' = (\/ succeeded
                         \/ /\ outcome.status = "ok"
                            /\ fetch.status = "returned"
                            /\ fetch.error_code # 1)
        /\ UNCHANGED <<read_result, extension, formatselector_extension>>
        /\ UNCHANGED selector_vars
        /\ UNCHANGED video_vars

\* Downloader.download_video(url), with what the engine answers
DownloadVideo(url, probe, fetch) ==
    LET rejected == CheckUrl(url)
        outcome == DownloadOutcome(rejected, probe, fetch)
        probed == ~rejected /\ probe.status = "ok"
    IN  /\ download_calls < MaxDownloadCalls
        /\ dl_url' = url
        /\ dl_outcome' = outcome
        /\ dl_before' = file_path
        /\ download_calls' = download_calls + 1
        /\ metadata' = IF probed
                       THEN Attr([title |-> probe.title,
                                  formats |-> probe.formats])
                       ELSE metadata
        /\ file_path' = IF outcome.status = "ok"
                        THEN Attr(FilePathOf(probe.title))
                        ELSE file_path
        /\ succeeded' = (\/ succeeded
                         \/ /\ ~rejected
                            /\ outcome.status = "ok"
                            /\ fetch.status = "returned"
                            /\ fetch.error_code # 1)
        /\ UNCHANGED <<read_result, extension, formatselector_extension>>
        /\ UNCHANGED selector_vars
        /\ UNCHANGED video_vars

\* the property Downloader.location
Location ==
    IF ~file_path.set
    THEN Raise("AttributeError",
               "Can't get location of file before it's been downloaded.")
    ELSE [status |-> "ok", value |-> file_path.value]

\* the property Downloader.content; the file may be missing on disk
Content(file_exists) ==
    IF ~file_path.set
    THEN Raise("AttributeError", "Video has not been downloaded yet.")
    ELSE IF file_exists
    THEN [status |-> "ok", value |-> "bytes"]
    ELSE Raise("FileNotFoundError", file_path.value)

GetLocation ==
    /\ read_result' = Location
    /\ UNCHANGED <<metadata, file_path, dl_url, dl_outcome, dl_before,
                   download_calls, succeeded>>
    /\ UNCHANGED <<extension, formatselector_extension>>
    /\ UNCHANGED selector_vars
    /\ UNCHANGED video_vars

GetContent(file_exists) ==
    /\ read_result' = Content(file_exists)
    /\ UNCHANGED <<metadata, file_path, dl_url, dl_outcome, dl_before,
                   download_calls, succeeded>>
    /\ UNCHANGED <<extension, formatselector_extension>>
    /\ UNCHANGED selector_vars
    /\ UNCHANGED video_vars

NextDownloader ==
    \/ \E url \in Urls, probe \in Probes, fetch \in Fetches :
          DownloadVideo(url, probe, fetch)
    \/ GetLocation
    \/ \E file_exists \in BOOLEAN : GetContent(file_exists)

SpecDownloader == Init /\ [][NextDownloader]_vars

----
\* Video: the page and its progress callback.

\* Settings (cache_text without the emoji it starts with)
speed_feedback == "**rate** [mb/s]"
cache_text == "Cache"

\* the speeds yt-dlp reports, in bytes per second
Speeds == {k * 1500000 : k \in 0..MaxSpeedSteps}

\* the info dicts the progress hook is called with; downloaded_bytes never
\* exceeds total_bytes, speed may be None
Infos ==
    {info \in [downloaded_bytes : 0..MaxBytes,
               total_bytes : 0..MaxBytes,
               status : {"downloading", "finished"},
               speed_is_none : BOOLEAN,
               speed : Speeds] :
        /\ info.downloaded_bytes <= info.total_bytes
        /\ info.speed_is_none => info.speed = 0}

\* int((downloaded_bytes / total_bytes) * 100), total_bytes # 0. For byte
\* counts up to 12 the float product truncates to the exact quotient.
DownloadProgression(info) ==
    (info.downloaded_bytes * 100) \div info.total_bytes

\* int(speed) // 1e6, None read as 0
SpeedRate(info) ==
    (IF info.speed_is_none THEN 0 ELSE info.speed) \div 1000000

\* the state a callback found, kept with its info
HookRecord(info) ==
    [status |-> "called", info |-> info, cache |-> cache,
     bar |-> progression_bar, holder |-> holder]

\* the extensions of the form's selectbox, "auto" already turned into ""
FormExtensions == {""} \cup AllExtensions

\* write(): the form was submitted with a url and an extension; the bar and
\* the rate column are set up, the Downloader is built and the download starts
WriteStart ==
    /\ pc = "form"
    /\ pc' = "downloading"
    /\ progression_bar' = Attr(0)
    /\ holder' = Attr("")
    /\ \E chosen \in FormExtensions :
          /\ extension' = chosen
          /\ formatselector_extension' = FormatSelectorInit(chosen)
    /\ UNCHANGED <<cache, rate_text, notification, hook>>
    /\ UNCHANGED selector_vars
    /\ UNCHANGED downloader_vars

DisplayProgression_without_cursor_check(info) ==
    /\ pc = "downloading"
    /\ IF info.total_bytes = 0
       THEN /\ pc' = "crashed"
            /\ hook' = NoCall
            /\ UNCHANGED <<cache, progression_bar, holder>>
       ELSE
       LET download_progression == DownloadProgression(info)
           speed_rate == SpeedRate(info)
           new_delta == speed_rate - cache.delta
       IN  /\ pc' = pc
           /\ hook' = HookRecord(info)
           /\ IF info.status = "finished"
              THEN /\ cache' = [cache EXCEPT !.update_hook = TRUE]
                   /\ UNCHANGED <<progression_bar, holder>>
              ELSE /\ progression_bar' = Attr(download_progression)
                   /\ IF -1 < new_delta /\ new_delta > 1
                      THEN /\ holder' = Attr(<<speed_feedback, speed_rate>>)
                           /\ cache' = [cache EXCEPT
                                  !.download_progress = download_progression,
                                  !.delta = speed_rate]
                      ELSE /\ holder' = holder
                           /\ cache' = [cache EXCEPT
                                  !.download_progress = download_progression]
    /\ UNCHANGED <<rate_text, notification>>
    /\ UNCHANGED <<extension, formatselector_extension>>
    /\ UNCHANGED selector_vars
    /\ UNCHANGED downloader_vars

\* Video._display_progression(info), called by the fetch step. A zero
\* total_bytes raises ZeroDivisionError, which ends the page run.
DisplayProgression(info) ==
    /\ pc = "downloading"
    /\ IF info.total_bytes = 0
       THEN /\ pc' = "crashed"
            /\ hook' = NoCall
            /\ UNCHANGED <<cache, progression_bar, holder>>
       ELSE
       LET download_progression == DownloadProgression(info)
           speed_rate == SpeedRate(info)
           new_delta == speed_rate - cache.delta
       IN  /\ pc' = pc
           /\ hook' = HookRecord(info)
           /\ IF \/ download_progression <= cache.download_progress
                 \/ info.status = "finished"
              THEN /\ cache' = [cache EXCEPT !.update_hook = TRUE]
                   /\ UNCHANGED <<progression_bar, holder>>
              ELSE /\ progression_bar' = Attr(download_progression)
                   /\ IF -1 < new_delta /\ new_delta > 1
                      THEN /\ holder' = Attr(<<speed_feedback, speed_rate>>)
                           /\ cache' = [cache EXCEPT
                                  !.download_progress = download_progression,
                                  !.delta = speed_rate]
                      ELSE /\ holder' = holder
                           /\ cache' = [cache EXCEPT
                                  !.download_progress = download_progression]
    /\ UNCHANGED <<rate_text, notification>>
    /\ UNCHANGED <<extension, formatselector_extension>>
    /\ UNCHANGED selector_vars
    /\ UNCHANGED downloader_vars

\* write(): download_video returned; a download that called no hook back to
\* a standstill is shown as served from the cache
WriteFinish ==
    /\ pc = "downloading"
    /\ pc' = "done"
    /\ IF ~cache.update_hook
       THEN /\ rate_text' = Attr(cache_text)
            /\ progression_bar' = Attr(100)
       ELSE UNCHANGED <<rate_text, progression_bar>>
    /\ UNCHANGED <<cache, holder, notification, hook>>
    /\ UNCHANGED <<extension, formatselector_extension>>
    /\ UNCHANGED selector_vars
    /\ UNCHANGED downloader_vars

\* write(): download_video raised DownloadError; the page shows it and stops
WriteStop ==
    /\ pc = "downloading"
    /\ pc' = "stopped"
    /\ notification' = Attr("The format is not available for this video.")
    /\ UNCHANGED <<cache, progression_bar, holder, rate_text, hook>>
    /\ UNCHANGED <<extension, formatselector_extension>>
    /\ UNCHANGED selector_vars
    /\ UNCHANGED downloader_vars

NextVideo ==
    \/ WriteStart
    \/ \E info \in Infos : DisplayProgression(info)
    \/ WriteFinish
    \/ WriteStop

\* the page before the form is submitted: no Downloader has been built
InitPage == Init /\ extension = ""

SpecVideo == InitPage /\ [][NextVideo]_vars

----
\* Properties of the format selection (checked under SpecSelector).

RECURSIVE LeadingNumberFrom(_, _, _)
\* the number a label starts with, all its leading digits read; 0 if none
LeadingNumberFrom(value, i, acc) ==
    IF i <= Len(value) /\ value[i] \in Digits
    THEN LeadingNumberFrom(value, i + 1, acc * 10 + DigitValue(value[i]))
    ELSE acc

LeadingNumber(value) == LeadingNumberFrom(value, 1, 0)

\* the label the selection is expected to ask for: the numerically highest
\* label of the catalog if it is canonical, else "1080p"
ExpectedQuality(catalog) ==
    LET notes == {catalog[i].format_note : i \in 1..Len(catalog)}
        top == Max({LeadingNumber(n) : n \in notes})
        canonical == {n \in notes : n \in Range(RESOLUTIONS)
                                     /\ LeadingNumber(n) = top}
    IN  IF canonical # {} THEN CHOOSE n \in canonical : TRUE ELSE q1080p

\* the catalog holds a video-only format of that quality and an audio-only
\* format in the container the merge table pairs with it
HasSelectablePair(catalog, quality) ==
    \E i, j \in 1..Len(catalog) :
        /\ VideoMatches(catalog[i], quality, "")
        /\ catalog[i].ext \in {"mp4", "webm"}
        /\ AudioMatches(catalog[j],
                        IF catalog[i].ext = "mp4" THEN "m4a" ELSE "webm")

\* C1: with an empty extension, on a catalog holding a selectable pair, the
\* result of the selection has a video of the highest canonical quality
\* label of the catalog ("1080p" when the highest label is not canonical).
C1_HighestCanonicalQualitySelected ==
    (/\ selection.status = "ok"
     /\ extension = ""
     /\ HasSelectablePair(ctx_formats, ExpectedQuality(ctx_formats)))
    => selection.requested_formats[1].format_note
           = ExpectedQuality(ctx_formats)

\* C2: a Downloader built with an audio extension selects a "144p" video
\* (when the catalog has a video-only one) and an audio format in that
\* extension.
C2_AudioRequestSelects144p ==
    (/\ selection.status = "ok"
     /\ extension \in {"mp3", "m4a", "webm", "wav"}
     /\ \E i \in 1..Len(ctx_formats) :
            VideoMatches(ctx_formats[i], q144p, ""))
    => /\ selection.requested_formats[1].format_note = q144p
       /\ selection.requested_formats[2].ext = extension

\* C4: a Downloader built with a non-empty extension outside
\* {mp4, webm, mp3, m4a, wav} fails every selection with the
\* unavailable-extension error.
C4_UnknownExtensionRejected ==
    (/\ selection.status # "none"
     /\ extension # ""
     /\ extension \notin {"mp4", "webm", "mp3", "m4a", "wav"})
    => selection = Raise("ValueError", "Extension is not available.")

\* C5: a successful selection that is not audio-only pairs an mp4 video with
\* m4a audio and a webm video with webm audio, and nothing else.
C5_MergeTablePairing ==
    (/\ selection.status = "ok"
     /\ ~IsAudio(formatselector_extension))
    => LET video == selection.requested_formats[1]
           audio == selection.requested_formats[2]
       IN  \/ video.ext = "mp4" /\ audio.ext = "m4a"
           \/ video.ext = "webm" /\ audio.ext = "webm"

\* an mp4 video was paired with m4a audio although the catalog also offers
\* audio in another container
C5_Witness ==
    /\ selection.status = "ok"
    /\ ~IsAudio(formatselector_extension)
    /\ selection.requested_formats[1].ext = "mp4"
    /\ selection.requested_formats[2].ext = "m4a"
    /\ \E i \in 1..Len(ctx_formats) :
          AudioMatches(ctx_formats[i], "webm")

\* no video-only format has the quality (and container) asked for, or none
\* of the audio-only formats has the container required for the video found
NoSplitMatches(self_extension, catalog) ==
    \/ catalog = <<>>
    \/ LET quality == TargetQuality(self_extension, Reverse(catalog))
           videos == {i \in 1..Len(catalog) :
                        VideoMatches(catalog[i], quality, self_extension)}
       IN  \/ videos = {}
           \/ LET found == catalog[Max(videos)]
                  required == IF IsAudio(self_extension)
                              THEN self_extension
                              ELSE MERGE[found.ext]
              IN  /\ IsAudio(self_extension) \/ found.ext \in DOMAIN MERGE
                  /\ \A j \in 1..Len(catalog) :
                        ~AudioMatches(catalog[j], required)

\* C6: on a catalog without a matching video-only / audio-only split (among
\* them the empty catalog) the selection fails with the no-matching-format
\* error.
C6_NoMatchRaisesNoMatchingFormat ==
    (/\ selection.status # "none"
     /\ NoSplitMatches(formatselector_extension, ctx_formats))
    => selection.status = "StopIteration"

C8_LatestMatchWins ==
    selection.status = "ok"
    => LET video == selection.requested_formats[1]
           audio == selection.requested_formats[2]
           videos == {i \in 1..Len(ctx_formats) :
                        VideoMatches(ctx_formats[i], video.format_note,
                                     formatselector_extension)}
           audios == {i \in 1..Len(ctx_formats) :
                        AudioMatches(ctx_formats[i], audio.ext)}
       IN  /\ videos # {}
           /\ video = ctx_formats[Max(videos)]
           /\ audios # {}
           /\ audio = ctx_formats[Max(audios)]
           /\ selection.format_id
                  = video.format_id \o "+" \o audio.format_id
           /\ selection.ext = video.ext

\* a selection made where two catalog entries satisfy the video constraints
C8_Witness ==
    /\ selection.status = "ok"
    /\ Cardinality({i \in 1..Len(ctx_formats) :
            VideoMatches(ctx_formats[i],
                         selection.requested_formats[1].format_note,
                         formatselector_extension)}) >= 2

----
\* Properties of the Downloader (checked under SpecDownloader).

\* the policy a url has to satisfy: https, no banned word, "watch" and "you"
Sanitary(url) ==
    /\ StartsWith(url, <<"h", "t", "t", "p", "s">>)
    /\ ~Contains(url, <<"p", "o", "r", "n">>)
    /\ ~Contains(url, <<"x", "x", "x">>)
    /\ Contains(url, <<"w", "a", "t", "c", "h">>)
    /\ Contains(url, <<"y", "o", "u">>)

\* C3: download_video raises the invalid-URL error exactly for the urls that
\* do not satisfy the whole policy.
C3_UrlRejectedUnlessSanitary ==
    download_calls > 0
    => ((dl_outcome = Raise("ValueError",
                            "Recieved an invalid URL, stopping..."))
        <=> ~Sanitary(dl_url))

\* C9: the file path is set only after a call that passed the URL check and
\* fetched with a status other than 1; a failed call leaves it as it was;
\* without a successful download location and content raise AttributeError.
C9_FilePathOnlyAfterSuccessfulDownload ==
    /\ file_path.set => succeeded
    /\ (download_calls > 0 /\ dl_outcome.status # "ok")
          => file_path = dl_before
    /\ ~succeeded
          => /\ Location.status = "AttributeError"
             /\ \A file_exists \in BOOLEAN :
                    Content(file_exists).status = "AttributeError"
             /\ read_result.status \in {"none", "AttributeError"}

\* a call passed the URL check, its fetch returned 1, and a read of the
\* location or the content then raised AttributeError
C9_Witness ==
    /\ ~succeeded
    /\ dl_outcome = Raise("DownloadError", "Video download failed.")
    /\ read_result.status = "AttributeError"

----
\* Properties of the progress callback (checked under SpecVideo).

\* C10: a progress callback never lowers cache["download_progress"]; one
\* whose percentage is not above the cursor, or whose status is "finished",
\* only sets update_hook; any other sets the cursor to its larger percentage.
C10_ProgressCursorMonotone ==
    (pc = "downloading" /\ hook.status = "called")
    => LET percentage == (hook.info.downloaded_bytes * 100)
                             \div hook.info.total_bytes
           cursor == hook.cache.download_progress
       IN  /\ cache.download_progress >= cursor
           /\ IF percentage <= cursor \/ hook.info.status = "finished"
              THEN /\ cache = [hook.cache EXCEPT !.update_hook = TRUE]
                   /\ progression_bar = hook.bar
                   /\ holder = hook.holder
              ELSE /\ cache.download_progress = percentage
                   /\ percentage > cursor

\* a callback reported less than the cursor already held and was ignored
C10_Witness ==
    /\ pc = "downloading"
    /\ hook.status = "called"
    /\ hook.info.status = "downloading"
    /\ (hook.info.downloaded_bytes * 100) \div hook.info.total_bytes
           < hook.cache.download_progress
    /\ cache.update_hook
    /\ cache.download_progress = hook.cache.download_progress

====
